---------------------------- MODULE Spec2Model ----------------------------
(***************************************************************************)
(* The typeshed serializers of sonar-python                                *)
(* (python-frontend/typeshed_serializer/serializer/serializers.py):        *)
(* source enumeration (get_sources), the direct-mode loop                  *)
(* (Serializer.serialize) and the merged-mode pipeline                     *)
(* (TypeshedSerializer.serialize_merged_modules).                          *)
(*                                                                         *)
(* Python str values are TLA+ strings; Len, SubSeq and \o act on them as   *)
(* on sequences of characters.  The inference engine (mypy's build.build), *)
(* symbols.ModuleSymbol, symbols.save_module and                           *)
(* symbols_merger.merge_modules are external to serializers.py; they are   *)
(* modelled by their observable contract only.                             *)
(***************************************************************************)
EXTENDS Naturals, Sequences, FiniteSets, Bags, TLC

VARIABLES
  target,             \* which serializer: "stdlib" | "third_party" | "custom" | "importer"
  mode,               \* "direct" (serialize) | "merged" (serialize_merged_modules)
  fs,                 \* the stub tree under the target's root: a set of <<dir segments, file name>>
  heap,               \* the options.Options objects created so far (a reference is an index)
  self_opt,           \* self.opt: reference to the object made in Serializer.__init__
  pc,                 \* position of the run
  source_paths,       \* the path set returned by the latest get_build_result / walk_*
  build_result,       \* build_result.files of the latest build: a sequence of engine modules
  build_log,          \* every build.build call made so far, in call order
  i,                  \* direct mode: index of the next entry of build_result.files
  vi,                 \* merged mode: index of the next entry of SUPPORTED_PYTHON_VERSIONS
  model_by_version,   \* merged mode: dict version key -> (dict fullname -> ModuleSymbol)
  all_python_modules, \* merged mode: the identity set handed to merge_modules
  merged_modules,     \* merged mode: what merge_modules returned
  merges,             \* number of merge_modules calls made
  pending,            \* merged mode: merged modules not written yet
  written             \* bag of the save_module calls made

vars == <<target, mode, fs, heap, self_opt, pc, source_paths, build_result, build_log,
          i, vi, model_by_version, all_python_modules, merged_modules, merges,
          pending, written>>

-----------------------------------------------------------------------------
(* Module-level constants, serializers.py lines 30-38.                      *)

STDLIB_PATH == "../resources/typeshed/stdlib"
STUBS_PATH == "../resources/typeshed/stubs"
\* os.path.dirname(__file__): the directory serializers.py is installed in.
CURRENT_PATH == "/serializer"
CUSTOM_STUBS_PATH == "../resources/custom"
SONAR_CUSTOM_BASE_STUB_MODULE == "SonarPythonAnalyzerFakeStub"
IMPORTER_FILE_NAME == "../resources/importer/sonar_third_party_libs.py"
IMPORTER_FQN == "sonar_third_party_libs"
SUPPORTED_PYTHON_VERSIONS == << <<3, 6>>, <<3, 7>>, <<3, 8>>, <<3, 9>>, <<3, 10>> >>

-----------------------------------------------------------------------------
(* Python str methods and os.path.join, as the code uses them.              *)

startswith(s, prefix) == Len(prefix) <= Len(s) /\ SubSeq(s, 1, Len(prefix)) = prefix

endswith(s, suffix) ==
  Len(suffix) <= Len(s) /\ SubSeq(s, Len(s) - Len(suffix) + 1, Len(s)) = suffix

\* sub in s
contains(s, sub) ==
  \E k \in 1..(Len(s) + 1) :
    k + Len(sub) - 1 <= Len(s) /\ SubSeq(s, k, k + Len(sub) - 1) = sub

\* s.replace(old, new): every non-overlapping occurrence, left to right.
RECURSIVE replace(_, _, _)
replace(s, old, new) ==
  IF Len(s) = 0 THEN ""
  ELSE IF startswith(s, old)
       THEN new \o replace(SubSeq(s, Len(old) + 1, Len(s)), old, new)
       ELSE SubSeq(s, 1, 1) \o replace(SubSeq(s, 2, Len(s)), old, new)

\* s.lstrip(chars)
RECURSIVE lstrip(_, _)
lstrip(s, chars) ==
  IF Len(s) > 0 /\ SubSeq(s, 1, 1) \in chars
  THEN lstrip(SubSeq(s, 2, Len(s)), chars)
  ELSE s

\* os.path.join(a, b) on a POSIX system
os_path_join(a, b) ==
  IF startswith(b, "/") THEN b
  ELSE IF Len(a) = 0 \/ endswith(a, "/") THEN a \o b
  ELSE a \o "/" \o b

\* f"{major}{minor}"
VersionKeyMinorDropped(version) == ToString(version[1])
VersionKey(version) == ToString(version[1]) \o ToString(version[2])

-----------------------------------------------------------------------------
(* The file system under one root.  A file is <<d, name>>: d the sequence   *)
(* of directory names from the root, name the file's name.  Directory and   *)
(* module names are Python package names (no dot, no separator); the        *)
(* "@python2" directory is typeshed's marker of a Python-2-only subtree.    *)

MaxFiles == 2

\* Directories in the order os.walk visits them (top-down).
DirUniverse ==
  << <<>>, <<"pkg">>, <<"sub">>, <<"@python2">>, <<"pkg", "sub">> >>

\* File names in listing order; "mod.py" is not a stub.
FileNames == << "__init__.pyi", "mod.pyi", "pkg.pyi", "mod.py" >>

Range(seq) == { seq[k] : k \in DOMAIN seq }

\* The files a tree is drawn from.
FileUniverse ==
  { <<(<<>>), "__init__.pyi">>, <<(<<>>), "mod.pyi">>, <<(<<>>), "pkg.pyi">>,
    <<(<<>>), "mod.py">>,
    <<(<<"pkg">>), "__init__.pyi">>, <<(<<"pkg">>), "mod.pyi">>,
    <<(<<"sub">>), "mod.pyi">>,
    <<(<<"@python2">>), "mod.pyi">>,
    <<(<<"pkg", "sub">>), "__init__.pyi">>, <<(<<"pkg", "sub">>), "mod.pyi">> }

\* The trees of at most n files.
RECURSIVE TreesUpTo(_)
TreesUpTo(n) ==
  IF n = 0 THEN {{}}
  ELSE LET smaller == TreesUpTo(n - 1)
       IN smaller \cup { t \cup {f} : t \in smaller, f \in FileUniverse }

Trees == TreesUpTo(MaxFiles)

IsPrefixDir(d, e) == Len(d) <= Len(e) /\ SubSeq(e, 1, Len(d)) = d

\* The directories that exist in tree t: every ancestor of a file.
DirsOf(t) == { d \in Range(DirUniverse) : \E f \in t : IsPrefixDir(d, f[1]) }

\* The path string of directory d under the root whose path string is top,
\* built as os.walk builds it: os.path.join(parent, name), level by level.
RECURSIVE DirPath(_, _)
DirPath(top, d) ==
  IF d = <<>> THEN top
  ELSE os_path_join(DirPath(top, SubSeq(d, 1, Len(d) - 1)), d[Len(d)])

\* The root directory a target's tree lives under.
TargetRoot(tg) ==
  CASE tg = "stdlib" -> os_path_join(CURRENT_PATH, STDLIB_PATH)
    [] tg = "third_party" -> os_path_join(CURRENT_PATH, STUBS_PATH)
    [] OTHER -> os_path_join(CURRENT_PATH, CUSTOM_STUBS_PATH)

\* os.walk(path) over tree t rooted at top: the (root, files) pairs of every
\* directory at or below the directory whose path is `path`; nothing when
\* `path` is not a directory.
os_walk(t, top, path) ==
  LET Below(d) ==
        d \in DirsOf(t) /\ \E d0 \in DirsOf(t) : DirPath(top, d0) = path /\ IsPrefixDir(d0, d)
      Listing(d) ==
        LET Here(name) == <<d, name>> \in t IN SelectSeq(FileNames, Here)
      visited == SelectSeq(DirUniverse, Below)
  IN [k \in DOMAIN visited |-> [root |-> DirPath(top, visited[k]), files |-> Listing(visited[k])]]

\* os.listdir(root): the names directly under the root, directories and files.
os_listdir(t) ==
  LET IsTopDir(d) == Len(d) = 1 /\ d \in DirsOf(t)
      IsTopFile(name) == <<(<<>>), name>> \in t
      topdirs == SelectSeq(DirUniverse, IsTopDir)
  IN [k \in DOMAIN topdirs |-> topdirs[k][1]] \o SelectSeq(FileNames, IsTopFile)

-----------------------------------------------------------------------------
(* get_sources, lines 68-89.                                                *)

\* line 73: root.replace(path, "").replace("\\", ".").replace("/", ".").lstrip(".")
PackageName(root, path) ==
  lstrip(replace(replace(replace(root, path, ""), "\\", "."), "/", "."), {"."})

\* lines 82-84 with the __init__ case left out
ModuleFqnNoInit(package_name, module_name) ==
  IF package_name # "" THEN package_name \o "." \o module_name ELSE module_name

\* lines 82-84: the fully-qualified module name of a stub
ModuleFqn(package_name, module_name) ==
  IF module_name = "__init__" THEN package_name
  ELSE IF package_name # "" THEN package_name \o "." \o module_name
  ELSE module_name

\* build.BuildSource(file_path, module=fq_module_name), lines 85-86
BuildSource(file_path, module) == [path |-> file_path, module |-> module]

\* lines 73-88 for one (root, files) entry of the walk
RECURSIVE SourcesOfFiles(_, _, _)
SourcesOfFiles(root, package_name, files) ==
  IF files = <<>> THEN <<>>
  ELSE LET file == Head(files)
           module_name == replace(file, ".pyi", "")
           rest == SourcesOfFiles(root, package_name, Tail(files))
       IN IF ~endswith(file, ".pyi") THEN rest
          ELSE << BuildSource(root \o "/" \o file, ModuleFqn(package_name, module_name)) >>
               \o rest

SourcesOfDir(path, entry) ==
  LET package_name == PackageName(entry.root, path)
  IN IF contains(package_name, "python2") THEN <<>>
     ELSE SourcesOfFiles(entry.root, package_name, entry.files)

RECURSIVE SourcesOfWalk(_, _)
SourcesOfWalk(path, walk) ==
  IF walk = <<>> THEN <<>>
  ELSE SourcesOfDir(path, Head(walk)) \o SourcesOfWalk(path, Tail(walk))

\* get_sources(relative_path) over tree t whose root has path string top
get_sources(t, top, relative_path) ==
  LET path == os_path_join(CURRENT_PATH, relative_path)
      source_list == SourcesOfWalk(path, os_walk(t, top, path))
  IN [source_list |-> source_list,
      source_paths |-> { source_list[k].path : k \in DOMAIN source_list }]

\* line 33: THIRD_PARTIES_STUBS = os.listdir(<stubs root>)
THIRD_PARTIES_STUBS(t) == os_listdir(t)

\* walk_typeshed_stdlib, lines 50-53: the sources handed to build.build
walk_typeshed_stdlib(t) == get_sources(t, TargetRoot("stdlib"), STDLIB_PATH)

\* walk_typeshed_third_parties, lines 56-65: the sources handed to build.build
RECURSIVE ThirdPartySources(_, _)
ThirdPartySources(t, stubs) ==
  IF stubs = <<>> THEN [source_list |-> <<>>, source_paths |-> {}]
  ELSE LET stub_path == os_path_join(STUBS_PATH, Head(stubs))
           one == get_sources(t, TargetRoot("third_party"), stub_path)
           rest == ThirdPartySources(t, Tail(stubs))
       IN [source_list |-> one.source_list \o rest.source_list,
           source_paths |-> one.source_paths \cup rest.source_paths]

walk_typeshed_third_parties(t) == ThirdPartySources(t, THIRD_PARTIES_STUBS(t))

\* The sources each get_build_result hands to the engine (lines 160-163, 173-177,
\* 187-190).
SourcesFor(tg, t) ==
  CASE tg = "stdlib" -> walk_typeshed_stdlib(t)
    [] tg = "third_party" -> walk_typeshed_third_parties(t)
    [] tg = "custom" -> get_sources(t, TargetRoot("custom"), CUSTOM_STUBS_PATH)
    [] OTHER ->
         LET path == os_path_join(CURRENT_PATH, IMPORTER_FILE_NAME)
         IN [source_list |-> << BuildSource(path, IMPORTER_FQN) >>, source_paths |-> {path}]

-----------------------------------------------------------------------------
(* The collaborators outside serializers.py, by contract.                   *)

\* One entry of build_result.files: a module identity and its originating path.
MypyFile(fullname, path) == [fullname |-> fullname, path |-> path]

\* Where the engine keeps its own bundled stubs.
ENGINE_TYPESHED == "/site-packages/mypy/typeshed"

\* Modules the engine may pull in besides the sources it was given.
Incidental(tg) ==
  CASE tg = "stdlib" ->
         << MypyFile("mypy_extensions",
                     os_path_join(ENGINE_TYPESHED, "stubs/mypy-extensions/mypy_extensions.pyi")) >>
    [] tg = "third_party" ->
         << MypyFile("typing", os_path_join(ENGINE_TYPESHED, "stdlib/typing.pyi")) >>
    [] tg = "custom" ->
         << MypyFile(SONAR_CUSTOM_BASE_STUB_MODULE,
                     os_path_join(TargetRoot("custom"), "SonarPythonAnalyzerFakeStub/__init__.pyi")),
            MypyFile("typing", os_path_join(ENGINE_TYPESHED, "stdlib/typing.pyi")),
            MypyFile("legacy", os_path_join(CURRENT_PATH, "../resources/custom_old/legacy.pyi")) >>
    [] OTHER ->
         << MypyFile("typing", os_path_join(ENGINE_TYPESHED, "stdlib/typing.pyi")),
            MypyFile("requests",
                     os_path_join(TargetRoot("third_party"), "requests/requests/__init__.pyi")) >>

\* The engine's modules for the sources given: one per module identity.
RECURSIVE SourceFiles(_, _)
SourceFiles(source_list, seen) ==
  IF source_list = <<>> THEN <<>>
  ELSE LET s == Head(source_list)
       IN IF s.module \in seen THEN SourceFiles(Tail(source_list), seen)
          ELSE << MypyFile(s.module, s.path) >>
               \o SourceFiles(Tail(source_list), seen \cup {s.module})

\* The results build.build(source_list, opt) may return when it succeeds.
EngineResults(tg, source_list) ==
  { LET Pulled(f) == f \in extras
    IN SourceFiles(source_list, {}) \o SelectSeq(Incidental(tg), Pulled)
    : extras \in SUBSET Range(Incidental(tg)) }

\* symbols.ModuleSymbol(mypy_file)
ModuleSymbol(mypy_file) == [fullname |-> mypy_file.fullname, mypy_file |-> mypy_file]

\* symbols.save_module(module_symbol, save_location, debug_dir=...): the artifact written
save_module(module_symbol, location, debug_dir) ==
  [fullname |-> module_symbol.fullname, save_location |-> location,
   debug_dir |-> debug_dir, symbol |-> module_symbol]

\* symbols_merger.merge_modules(all_python_modules, model_by_version): one merged
\* symbol per identity, recording the versions that define it.
merge_modules(all_modules, mbv) ==
  { [fullname |-> m, versions |-> { k \in DOMAIN mbv : m \in DOMAIN mbv[k] }]
    : m \in all_modules }

-----------------------------------------------------------------------------
(* Python objects and dicts.                                                *)

EmptyDict == [k \in {} |-> {}]

\* d[key] = value
DictSet(d, key, value) ==
  [k \in (DOMAIN d) \cup {key} |-> IF k = key THEN value ELSE d[k]]

\* get_options that keeps one Options object and re-targets it on every call
get_options_shared(h, python_version) ==
  IF h = <<>>
  THEN << [incremental |-> FALSE, python_version |-> python_version, platform |-> "linux"] >>
  ELSE [h EXCEPT ![Len(h)] = [@ EXCEPT !.python_version = python_version]]

\* get_options, lines 41-47: the heap after the call; the new object is the last
get_options(h, python_version) ==
  Append(h, [incremental |-> FALSE, python_version |-> python_version, platform |-> "linux"])

-----------------------------------------------------------------------------
(* The serializer classes, lines 92-193.                                    *)

is_third_parties == target = "third_party"

\* save_location, lines 123, 171, 185
save_location ==
  CASE target = "third_party" -> "third_party_protobuf"
    [] target = "stdlib" -> "stdlib_protobuf"
    [] target = "importer" -> "third_party_protobuf_mypy"
    [] OTHER -> "custom_protobuf"

TypeshedSerializer_is_exception_inverted(file, paths) ==
  is_third_parties /\ file.path \in paths

\* TypeshedSerializer.is_exception, lines 165-167
TypeshedSerializer_is_exception(file, paths) ==
  is_third_parties /\ file.path \notin paths

ImporterSerializer_is_exception_never(file) == FALSE

\* ImporterSerializer.is_exception, lines 179-180
ImporterSerializer_is_exception(file) == file.fullname = "sonar_third_party_libs"

\* CustomStubsSerializer.path, line 184
CustomStubsSerializer_path == os_path_join(CURRENT_PATH, CUSTOM_STUBS_PATH)

\* CustomStubsSerializer.is_exception, lines 192-193
CustomStubsSerializer_is_exception(file) ==
  \/ file.fullname = SONAR_CUSTOM_BASE_STUB_MODULE
  \/ ~startswith(file.path, CustomStubsSerializer_path)

\* self.is_exception(file, build_result, source_paths), dispatched on the class
is_exception(file, paths) ==
  CASE target \in {"stdlib", "third_party"} -> TypeshedSerializer_is_exception(file, paths)
    [] target = "importer" -> ImporterSerializer_is_exception(file)
    [] OTHER -> CustomStubsSerializer_is_exception(file)

\* lines 149-156: the modules dict of one version, with no path filter
ModulesOfUnfiltered(files, paths) ==
  LET kept == Range(files)
  IN [name \in { f.fullname : f \in kept } |->
        ModuleSymbol(CHOOSE f \in kept : f.fullname = name)]

\* lines 149-156: the modules dict of one version
ModulesOf(files, paths) ==
  LET kept == { f \in Range(files) : ~(is_third_parties /\ f.path \notin paths) }
  IN [name \in { f.fullname : f \in kept } |->
        ModuleSymbol(CHOOSE f \in kept : f.fullname = name)]

\* lines 134-139 reading only the last version's model
AllPythonModulesLastOnly(mbv) ==
  LET last == VersionKey(SUPPORTED_PYTHON_VERSIONS[Len(SUPPORTED_PYTHON_VERSIONS)])
  IN IF last \in DOMAIN mbv THEN { mbv[last][m].fullname : m \in DOMAIN mbv[last] } ELSE {}

\* lines 134-139: all_python_modules
AllPythonModules(mbv) ==
  UNION { { mbv[version][module_fqn].fullname : module_fqn \in DOMAIN mbv[version] }
          : version \in DOMAIN mbv }

\* A raised exception caught and the call made again
OnBuildFailureRetry == "NotStarted"

\* build.build raises: serialize and serialize_merged_modules have no handler,
\* so the exception leaves the run (lines 100, 126-133)
OnBuildFailure == "Failed"

\* `break` in place of `continue`
LoopAfterSkipBreak(index, n) == n + 1

\* lines 102-103: `continue` goes on with the next file
LoopAfterSkip(index, n) == index + 1

\* One build.build(source_list, opt) call: its arguments, whether it returned,
\* and the files of its result; with the path set its caller returns beside it.
BuildRecord(version, opt, ok, files, src) ==
  [version |-> version, opt |-> opt, ok |-> ok, files |-> files,
   source_list |-> src.source_list, source_paths |-> src.source_paths]

-----------------------------------------------------------------------------
Targets == {"stdlib", "third_party", "custom", "importer"}

\* The state after the serializer object is constructed (lines 95-97, 120-123).
Init ==
  /\ target \in Targets
  /\ mode \in (IF target \in {"stdlib", "third_party"} THEN {"direct", "merged"} ELSE {"direct"})
  /\ fs \in (IF target = "importer" THEN {{}} ELSE Trees)
  /\ heap = get_options(<<>>, <<3, 8>>)
  /\ self_opt = 1
  /\ pc = "NotStarted"
  /\ source_paths = {}
  /\ build_result = <<>>
  /\ build_log = <<>>
  /\ i = 1
  /\ vi = 1
  /\ model_by_version = EmptyDict
  /\ all_python_modules = {}
  /\ merged_modules = {}
  /\ merges = 0
  /\ pending = {}
  /\ written = EmptyBag

\* Serializer.serialize, line 100: get_build_result(self.opt)
serialize_build ==
  /\ pc = "NotStarted"
  /\ mode = "direct"
  /\ LET src == SourcesFor(target, fs)
         version == heap[self_opt].python_version
     IN \/ /\ build_log' = Append(build_log, BuildRecord(version, self_opt, FALSE, <<>>, src))
           /\ pc' = OnBuildFailure
           /\ UNCHANGED <<source_paths, build_result>>
        \/ \E files \in EngineResults(target, src.source_list) :
             /\ build_log' = Append(build_log, BuildRecord(version, self_opt, TRUE, files, src))
             /\ build_result' = files
             /\ source_paths' = src.source_paths
             /\ pc' = IF files = <<>> THEN "Done" ELSE "Writing"
  /\ i' = 1
  /\ UNCHANGED <<target, mode, fs, heap, self_opt, vi, model_by_version,
                 all_python_modules, merged_modules, merges, pending, written>>

\* Serializer.serialize, lines 101-107: one iteration of the loop
serialize_file ==
  /\ pc = "Writing"
  /\ mode = "direct"
  /\ i <= Len(build_result)
  /\ LET file == build_result[i]
         n == Len(build_result)
     IN IF is_exception(file, source_paths)
        THEN /\ i' = LoopAfterSkip(i, n)
             /\ UNCHANGED written
        ELSE /\ i' = i + 1
             /\ written' = written (+) SetToBag({save_module(ModuleSymbol(file), save_location, "output")})
  /\ pc' = IF i' > Len(build_result) THEN "Done" ELSE "Writing"
  /\ UNCHANGED <<target, mode, fs, heap, self_opt, source_paths, build_result, build_log,
                 vi, model_by_version, all_python_modules, merged_modules, merges, pending>>

\* build_for_every_python_version, lines 145-157: one iteration of the loop
build_version ==
  /\ pc \in {"NotStarted", "Building"}
  /\ mode = "merged"
  /\ vi <= Len(SUPPORTED_PYTHON_VERSIONS)
  /\ LET version == SUPPORTED_PYTHON_VERSIONS[vi]
         h == get_options(heap, version)
         opt == Len(h)
         src == IF is_third_parties THEN walk_typeshed_third_parties(fs)
                ELSE walk_typeshed_stdlib(fs)
     IN /\ heap' = h
        /\ \/ /\ build_log' = Append(build_log, BuildRecord(version, opt, FALSE, <<>>, src))
              /\ pc' = OnBuildFailure
              /\ UNCHANGED <<source_paths, build_result, model_by_version, vi>>
           \/ \E files \in EngineResults(target, src.source_list) :
                /\ build_log' = Append(build_log, BuildRecord(version, opt, TRUE, files, src))
                /\ build_result' = files
                /\ source_paths' = src.source_paths
                /\ model_by_version' =
                     DictSet(model_by_version, VersionKey(version), ModulesOf(files, src.source_paths))
                /\ vi' = vi + 1
                /\ pc' = IF vi' > Len(SUPPORTED_PYTHON_VERSIONS) THEN "Merging" ELSE "Building"
  /\ UNCHANGED <<target, mode, fs, self_opt, i, all_python_modules, merged_modules,
                 merges, pending, written>>

\* get_merged_modules, lines 134-141, and the return to serialize_merged_modules
merge ==
  /\ pc = "Merging"
  /\ mode = "merged"
  /\ all_python_modules' = AllPythonModules(model_by_version)
  /\ merged_modules' = merge_modules(all_python_modules', model_by_version)
  /\ merges' = merges + 1
  /\ pending' = merged_modules'
  /\ pc' = IF merged_modules' = {} THEN "Done" ELSE "Writing"
  /\ UNCHANGED <<target, mode, fs, heap, self_opt, source_paths, build_result, build_log,
                 i, vi, model_by_version, written>>

\* serialize_merged_modules, lines 127-130: one iteration of the loop
write_merged ==
  /\ pc = "Writing"
  /\ mode = "merged"
  /\ \E mod \in pending :
       /\ written' = written (+) SetToBag({save_module(mod, save_location, "output_merge")})
       /\ pending' = pending \ {mod}
  /\ pc' = IF pending' = {} THEN "Done" ELSE "Writing"
  /\ UNCHANGED <<target, mode, fs, heap, self_opt, source_paths, build_result, build_log,
                 i, vi, model_by_version, all_python_modules, merged_modules, merges>>

Next == serialize_build \/ serialize_file \/ build_version \/ merge \/ write_merged

Spec == Init /\ [][Next]_vars

\* The runs of Serializer.serialize alone (direct mode).  Once the build has
\* returned, the loop over its files keeps executing until it ends: the
\* program is sequential and nothing in the loop waits.
InitSerialize == Init /\ mode = "direct"

NextSerialize == serialize_build \/ serialize_file

SerializeSpec == InitSerialize /\ [][NextSerialize]_vars /\ WF_vars(serialize_file)

-----------------------------------------------------------------------------
(* Vocabulary of the properties.                                            *)

Builds == Range(build_log)

Artifacts == BagToSet(written)

WrittenOnce(a) == a \in Artifacts /\ CopiesIn(a, written) = 1

\* The path string of file f of the tree, under the target's root.
PathOf(f) == DirPath(TargetRoot(target), f[1]) \o "/" \o f[2]

\* The directory of f relative to the root its enumeration pass walks: the
\* target's root, or for the third-party target the stub directory f lies in.
RelDir(f) == IF target = "third_party" THEN Tail(f[1]) ELSE f[1]

RECURSIVE JoinDots(_)
JoinDots(segments) ==
  IF segments = <<>> THEN ""
  ELSE IF Len(segments) = 1 THEN segments[1]
  ELSE JoinDots(SubSeq(segments, 1, Len(segments) - 1)) \o "." \o segments[Len(segments)]

\* The identity the specification gives the stub `name` in directory d.
ExpectedIdentity(d, name) ==
  IF name = "__init__.pyi" THEN JoinDots(d)
  ELSE JoinDots(Append(d, SubSeq(name, 1, Len(name) - Len(".pyi"))))

\* p lies in the directory `root` or below it.
UnderDirectory(p, root) == startswith(p, root \o "/")

\* The identities of build b that its target keeps.
KeptNames(b) ==
  { f.fullname : f \in { g \in Range(b.files) : target = "stdlib" \/ g.path \in b.source_paths } }

-----------------------------------------------------------------------------
\* C1: every descriptor get_sources hands to the engine is a stub file of the
\* tree, and its module identity is the dotted directory path from the walked
\* root joined with the file's base name, or the package path alone for
\* __init__.pyi; it has no leading or trailing dot.
C1_ModuleIdentity ==
  target # "importer" =>
    \A b \in Builds : \A k \in DOMAIN b.source_list :
      LET s == b.source_list[k]
      IN /\ \E f \in fs :
              /\ endswith(f[2], ".pyi")
              /\ s.path = PathOf(f)
              /\ s.module = ExpectedIdentity(RelDir(f), f[2])
         /\ ~startswith(s.module, ".")
         /\ ~endswith(s.module, ".")

\* The three files of the specification's example are enumerated with the
\* identities pkg.sub, pkg.sub.mod and mod (two at a time).
C1_Witness ==
  /\ target = "stdlib"
  /\ \E b \in Builds :
       /\ \E k \in DOMAIN b.source_list :
            /\ b.source_list[k].path = TargetRoot("stdlib") \o "/pkg/sub/__init__.pyi"
            /\ b.source_list[k].module = "pkg.sub"
       /\ \E k \in DOMAIN b.source_list :
            /\ b.source_list[k].path = TargetRoot("stdlib") \o "/pkg/sub/mod.pyi"
            /\ b.source_list[k].module = "pkg.sub.mod"

\* C2: for the third-party target a module the engine returned from a path
\* outside the build's source-path set is in no PerVersionModel and is never
\* written, in direct and in merged mode.
C2_ThirdPartyExclusion ==
  target = "third_party" =>
    \A b \in Builds : \A k \in DOMAIN b.files :
      LET f == b.files[k]
      IN f.path \notin b.source_paths =>
           /\ \A a \in Artifacts : a.fullname # f.fullname
           /\ VersionKey(b.version) \in DOMAIN model_by_version =>
                f.fullname \notin DOMAIN model_by_version[VersionKey(b.version)]

\* A merged third-party run has finished and written modules although a build
\* returned the incidental module typing.
C2_Witness ==
  /\ target = "third_party"
  /\ mode = "merged"
  /\ pc = "Done"
  /\ written # EmptyBag
  /\ \E b \in Builds : \E k \in DOMAIN b.files :
       b.files[k].fullname = "typing" /\ b.files[k].path \notin b.source_paths

\* C3: for the custom-stubs target the base stub module is never written and no
\* module whose path lies outside the custom-stubs root directory is written.
C3_CustomExclusion ==
  target = "custom" =>
    \A a \in Artifacts :
      /\ a.fullname # SONAR_CUSTOM_BASE_STUB_MODULE
      /\ UnderDirectory(a.symbol.mypy_file.path, TargetRoot("custom"))

\* C4: in merged mode every version's build runs with an options object of its
\* own, made for that version with incremental caching off, and the
\* PerVersionModel stored for a version holds exactly the kept modules of that
\* version's own build result: nothing of another version's build enters it,
\* so it does not depend on which versions were built before it.
C4_VersionIsolation ==
  mode = "merged" =>
    \A k \in DOMAIN build_log :
      LET b == build_log[k]
      IN /\ b.opt # self_opt
         /\ \A j \in DOMAIN build_log : j # k => build_log[j].opt # b.opt
         /\ heap[b.opt] =
              [incremental |-> FALSE, python_version |-> b.version, platform |-> "linux"]
         /\ b.ok =>
              /\ VersionKey(b.version) \in DOMAIN model_by_version
              /\ LET model == model_by_version[VersionKey(b.version)]
                 IN /\ DOMAIN model = KeptNames(b)
                    /\ \A m \in DOMAIN model :
                         /\ model[m].fullname = m
                         /\ model[m].mypy_file \in Range(b.files)

\* All versions are built and two of them got different engine results.
C4_Witness ==
  /\ mode = "merged"
  /\ pc = "Merging"
  /\ \E j, k \in DOMAIN build_log :
       /\ build_log[j].files # build_log[k].files
       /\ model_by_version[VersionKey(build_log[j].version)]
            # model_by_version[VersionKey(build_log[k].version)]

\* C5: the descriptors handed to the engine for one build never hold two
\* different paths with the same module identity.
C5_UniqueIdentities ==
  \A b \in Builds : \A j, k \in DOMAIN b.source_list :
    b.source_list[j].module = b.source_list[k].module
      => b.source_list[j].path = b.source_list[k].path

\* What a direct-mode run must have written when it is done: one artifact per
\* module of the engine result that the exclusion predicate does not match.
DirectExpected ==
  { save_module(ModuleSymbol(build_result[k]), save_location, "output")
    : k \in { n \in DOMAIN build_result : ~is_exception(build_result[n], source_paths) } }

\* C6: a direct-mode run whose build succeeded reaches Done; no module matching
\* the exclusion predicate is ever written, no module is written twice, and at
\* Done every module not matching it has been written exactly once.
C6_DirectRunCompletes ==
  /\ [](mode = "direct" =>
          /\ \A a \in Artifacts :
               /\ CopiesIn(a, written) = 1
               /\ ~is_exception(a.symbol.mypy_file, source_paths)
          /\ pc = "Done" => Artifacts = DirectExpected)
  /\ ((mode = "direct" /\ pc = "Writing") ~> (pc = "Done"))

\* A direct run is done, having skipped one module and written another.
C6_Witness ==
  /\ mode = "direct"
  /\ pc = "Done"
  /\ written # EmptyBag
  /\ \E k \in DOMAIN build_result : is_exception(build_result[k], source_paths)

\* C7: a failed build ends the run at once with nothing written and is not
\* made again; modules are written only after the single build returned
\* (direct mode) or after every version's build and the merge completed
\* (merged mode).
C7_FailureWritesNothing ==
  /\ \A k \in DOMAIN build_log :
       ~build_log[k].ok => (pc = "Failed" /\ written = EmptyBag /\ k = Len(build_log))
  /\ \A j, k \in DOMAIN build_log :
       j # k => build_log[j].version # build_log[k].version
  /\ written # EmptyBag =>
       /\ \A b \in Builds : b.ok
       /\ mode = "direct" => Len(build_log) = 1
       /\ mode = "merged" => (Len(build_log) = Len(SUPPORTED_PYTHON_VERSIONS) /\ merges = 1)

\* A merged run failed at a later version, after earlier versions were built.
C7_Witness ==
  /\ mode = "merged"
  /\ pc = "Failed"
  /\ Len(build_log) >= 3
  /\ DOMAIN model_by_version # {}

\* C8: for the importer target the entry module sonar_third_party_libs is never
\* written, and when the run is done every other module of the engine result
\* has been written.
C8_ImporterExclusion ==
  target = "importer" =>
    /\ \A a \in Artifacts : a.fullname # IMPORTER_FQN
    /\ pc = "Done" =>
         \A k \in DOMAIN build_result :
           build_result[k].fullname # IMPORTER_FQN =>
             \E a \in Artifacts : a.symbol.mypy_file = build_result[k]

\* An importer run is done: the engine returned the entry module and two
\* modules it pulls in, and those two were written.
C8_Witness ==
  /\ target = "importer"
  /\ pc = "Done"
  /\ \E k \in DOMAIN build_result : build_result[k].fullname = IMPORTER_FQN
  /\ Cardinality(Artifacts) = 2

\* C9: the identity set passed to the merger is the union of the keys of all
\* PerVersionModels; each identity in it is defined by at least one version,
\* and a version's PerVersionModel has an entry exactly for the identities that
\* version's build kept.
C9_AllIdentities ==
  merges >= 1 =>
    /\ all_python_modules = UNION { DOMAIN model_by_version[v] : v \in DOMAIN model_by_version }
    /\ \A m \in all_python_modules :
         { v \in DOMAIN model_by_version : m \in DOMAIN model_by_version[v] } # {}
    /\ \A b \in Builds : DOMAIN model_by_version[VersionKey(b.version)] = KeptNames(b)
    /\ { x.fullname : x \in merged_modules } = all_python_modules

\* The merger was given an identity that the last version does not define.
C9_Witness ==
  /\ merges = 1
  /\ \E m \in all_python_modules :
       /\ m \notin DOMAIN model_by_version["310"]
       /\ m \in DOMAIN model_by_version["36"]

\* C10: in merged mode the versions are built in the order of
\* SUPPORTED_PYTHON_VERSIONS, each built version has a PerVersionModel under a
\* key of its own, the merger runs once and only after the last build, nothing
\* is written before the merge, and at Done each merged module has been
\* written exactly once.
C10_MergedPipeline ==
  mode = "merged" =>
    /\ Len(build_log) <= Len(SUPPORTED_PYTHON_VERSIONS)
    /\ \A k \in DOMAIN build_log : build_log[k].version = SUPPORTED_PYTHON_VERSIONS[k]
    /\ DOMAIN model_by_version = { VersionKey(b.version) : b \in { x \in Builds : x.ok } }
    /\ Cardinality(DOMAIN model_by_version) = Cardinality({ k \in DOMAIN build_log : build_log[k].ok })
    /\ merges <= 1
    /\ merges = 1 =>
         /\ Len(build_log) = Len(SUPPORTED_PYTHON_VERSIONS)
         /\ \A b \in Builds : b.ok
    /\ written # EmptyBag => merges = 1
    /\ \A a \in Artifacts :
         /\ CopiesIn(a, written) = 1
         /\ \E m \in merged_modules : a = save_module(m, save_location, "output_merge")
    /\ pc = "Done" =>
         \A m \in merged_modules : WrittenOnce(save_module(m, save_location, "output_merge"))

\* A merged run is done with the five versions built and two merged modules
\* written.
C10_Witness ==
  /\ mode = "merged"
  /\ pc = "Done"
  /\ Len(build_log) = Len(SUPPORTED_PYTHON_VERSIONS)
  /\ Cardinality(Artifacts) >= 2

=============================================================================
